---- MODULE Spec2Model ----
(***************************************************************************)
(* A model of the Upwork jobs scraper: the text normalizers                *)
(* (extractors/utils_text.py), the record extractor, page parser and       *)
(* scrape orchestrator (extractors/upwork_parser.py) and the column order  *)
(* of the tabular exports (outputs/exporter.py).                           *)
(*                                                                         *)
(* Python str values are sequences of one-character strings; an optional   *)
(* value (None or x) is the empty sequence or <<x>>; the outcome of a call *)
(* that may raise is [kind |-> "return" | "raise", val |-> ...].           *)
(***************************************************************************)
EXTENDS Integers, Sequences, FiniteSets, TLC

VARIABLES
    call,       \* text normalizers: the call under way [fn, text, list, now, dp]
    tx_pc,      \* text normalizers: "ready" | "done"
    tx_result,  \* text normalizers: the outcome of the call
    pg_call,    \* page parser: the call under way [fn, html, card, now]
    pg_pc,      \* page parser: "ready" | "done"
    pg_result,  \* page parser: the outcome of the call
    sc_cfg,     \* scrape: [search_url_template, max_items, delay_seconds, max_pages]
    sc_pc,      \* scrape: "head" | "fetch" | "parse" | "append" | "pause" |
                \*         "returned" | "raised"
    sc_page,    \* scrape: the loop variable page
    sc_jobs,    \* scrape: the accumulator jobs
    sc_html,    \* scrape: the text of the page fetched last
    sc_page_jobs, \* scrape: the records of page_jobs not yet looked at
    sc_terminal,  \* scrape: how the loop ended ("" while it runs)
    sc_fetched, \* scrape: a log of the fetches [page, url, failed, html, count]
    sc_slept,   \* scrape: a log of the pauses [page, count]
    ex_data,    \* export: the records, each the sequence of its keys as inserted
    ex_fmt,     \* export: the format asked for
    ex_pc,      \* export: "ready" | "done"
    ex_result   \* export: the outcome, for a tabular format with its columns

tx_vars == <<call, tx_pc, tx_result>>

pg_vars == <<pg_call, pg_pc, pg_result>>

sc_vars ==
    <<sc_cfg, sc_pc, sc_page, sc_jobs, sc_html, sc_page_jobs, sc_terminal, sc_fetched,
      sc_slept>>

ex_vars == <<ex_data, ex_fmt, ex_pc, ex_result>>

vars == <<tx_vars, pg_vars, sc_vars, ex_vars>>

----------------------------------------------------------------------------
(* Python values *)

None == <<>>
Some(x) == <<x>>

Ret(v) == [kind |-> "return", val |-> v]
Raise(e) == [kind |-> "raise", val |-> e]

----------------------------------------------------------------------------
(* str operations used by the source *)

Digits == {"0", "1", "2", "3", "4", "5", "6", "7", "8", "9"}

\* the characters re's \s matches, among those the model's texts use
Whitespace == {" ", "\t", "\n"}

DigitVal(c) ==
    CASE c = "0" -> 0 [] c = "1" -> 1 [] c = "2" -> 2 [] c = "3" -> 3
      [] c = "4" -> 4 [] c = "5" -> 5 [] c = "6" -> 6 [] c = "7" -> 7
      [] c = "8" -> 8 [] c = "9" -> 9

DigitChar(d) ==
    CASE d = 0 -> "0" [] d = 1 -> "1" [] d = 2 -> "2" [] d = 3 -> "3"
      [] d = 4 -> "4" [] d = 5 -> "5" [] d = 6 -> "6" [] d = 7 -> "7"
      [] d = 8 -> "8" [] d = 9 -> "9"

\* str.lower() on one character
LowerChar(c) ==
    CASE c = "A" -> "a"
      [] c = "B" -> "b"
      [] c = "C" -> "c"
      [] c = "D" -> "d"
      [] c = "E" -> "e"
      [] c = "F" -> "f"
      [] c = "G" -> "g"
      [] c = "H" -> "h"
      [] c = "I" -> "i"
      [] c = "J" -> "j"
      [] c = "K" -> "k"
      [] c = "L" -> "l"
      [] c = "M" -> "m"
      [] c = "N" -> "n"
      [] c = "O" -> "o"
      [] c = "P" -> "p"
      [] c = "Q" -> "q"
      [] c = "R" -> "r"
      [] c = "S" -> "s"
      [] c = "T" -> "t"
      [] c = "U" -> "u"
      [] c = "V" -> "v"
      [] c = "W" -> "w"
      [] c = "X" -> "x"
      [] c = "Y" -> "y"
      [] c = "Z" -> "z"
      [] OTHER -> c

\* str.lower()
Lower(s) == [i \in 1..Len(s) |-> LowerChar(s[i])]

\* s[i:] with a 1-based i
From(s, i) == SubSeq(s, i, Len(s))

\* s.startswith(w, i - 1)
StartsWithAt(s, i, w) ==
    /\ i >= 1
    /\ i + Len(w) - 1 <= Len(s)
    /\ SubSeq(s, i, i + Len(w) - 1) = w

StartsWith(s, w) == StartsWithAt(s, 1, w)

\* w in s
Contains(s, w) == \E i \in 1..(Len(s) + 1) : StartsWithAt(s, i, w)

\* s.find(w) as a 1-based index, 0 when w is not in s
Find(s, w) ==
    IF Contains(s, w)
    THEN CHOOSE i \in 1..(Len(s) + 1) :
            /\ StartsWithAt(s, i, w)
            /\ \A j \in 1..(i - 1) : ~StartsWithAt(s, j, w)
    ELSE 0

RECURSIVE Concat(_)
\* "".join(parts)
Concat(parts) == IF parts = <<>> THEN <<>> ELSE Head(parts) \o Concat(Tail(parts))

\* the least and the greatest element of a non-empty set of integers
Min(S) == CHOOSE x \in S : \A y \in S : x <= y
Max(S) == CHOOSE x \in S : \A y \in S : y <= x

\* s.lstrip(chars)
LStrip(s, chars) ==
    LET keep == {i \in 1..Len(s) : s[i] \notin chars}
    IN  IF keep = {} THEN <<>> ELSE From(s, Min(keep))

\* s.rstrip(chars)
RStrip(s, chars) ==
    LET keep == {i \in 1..Len(s) : s[i] \notin chars}
    IN  IF keep = {} THEN <<>> ELSE SubSeq(s, 1, Max(keep))

\* s.strip(chars)
Strip(s, chars) == LStrip(RStrip(s, chars), chars)

RECURSIVE StrToInt(_)
\* the number a string of at most 10 digits denotes
StrToInt(s) ==
    IF s = <<>> THEN 0
    ELSE 10 * StrToInt(SubSeq(s, 1, Len(s) - 1)) + DigitVal(s[Len(s)])

\* Python's int is unbounded and the checker's is 32 bits wide: every value from
\* IntSaturated up is represented by IntSaturated. The code compares such a
\* value only with smaller numbers, and every datetime computation on one
\* overflows, so the representative behaves as the value does.
IntSaturated == 2000000000

\* int(s) for a non-empty string of digits
int_of(s) ==
    LET sig == LStrip(s, {"0"})
    IN  IF Len(sig) <= 9 \/ (Len(sig) = 10 /\ sig[1] = "1") THEN StrToInt(sig)
        ELSE IntSaturated

RECURSIVE IntToStr(_)
\* str(n) for n >= 0
IntToStr(n) ==
    IF n < 10 THEN <<DigitChar(n)>>
    ELSE Append(IntToStr(n \div 10), DigitChar(n % 10))

\* the length of the run of characters of the set C that starts at index i of s
RunLength(s, i, C) ==
    LET stops == {j \in i..Len(s) : s[j] \notin C}
    IN  IF i > Len(s) THEN 0
        ELSE IF stops = {} THEN Len(s) - i + 1
        ELSE Min(stops) - i

\* how much \d+ can take at index i of s, and how much \s+ can
DigitRun(s, i) == RunLength(s, i, Digits)
SpaceRun(s, i) == RunLength(s, i, Whitespace)

----------------------------------------------------------------------------
(* utils_text.clean_text *)

\* _WHITESPACE_RE.sub(" ", s): every maximal run of whitespace becomes one " "
CollapseWhitespace(s) ==
    LET marked == [i \in 1..Len(s) |->
                      IF s[i] \notin Whitespace THEN s[i]
                      ELSE IF i > 1 /\ s[i - 1] \in Whitespace THEN "(rest of a run)"
                      ELSE " "]
    IN  SelectSeq(marked, LAMBDA c : c # "(rest of a run)")

\* clean_text of an optional string (None is <<>>, a string s is <<s>>)
clean_text_opt(t) ==
    IF t = None THEN <<>>
    ELSE Strip(CollapseWhitespace(t[1]), Whitespace)

clean_text(s) == clean_text_opt(Some(s))

----------------------------------------------------------------------------
(* the relative pattern of parse_created_at *)

\* the alternation (minute|minutes|hour|hours|day|days|week|weeks), in its order
RelativeUnits ==
    << <<"m", "i", "n", "u", "t", "e">>, <<"m", "i", "n", "u", "t", "e", "s">>,
       <<"h", "o", "u", "r">>, <<"h", "o", "u", "r", "s">>,
       <<"d", "a", "y">>, <<"d", "a", "y", "s">>,
       <<"w", "e", "e", "k">>, <<"w", "e", "e", "k", "s">> >>

----------------------------------------------------------------------------
(* utils_text.parse_created_at *)

\* datetime.timedelta accepts at most this many days (either sign)
TimedeltaMaxDays == 999999999

\* date.min is day 1 of the proleptic Gregorian calendar (0001-01-01)
MinOrdinal == 1

MinutesPerDay == 1440

\* A timestamp is [day |-> proleptic ordinal, minute |-> minute of the day].
\* The two shapes of string parse_created_at returns:
Iso(t) == [fmt |-> "iso8601", day |-> t.day, minute |-> t.minute, text |-> <<>>]
Txt(s) == [fmt |-> "text", day |-> 0, minute |-> 0, text |-> s]

\* re.match(r"(\d+)\s+(minute|...|weeks)\s+ago", s) succeeds with \d+ taking
\* d digits, the first \s+ taking a characters, the unit being RelativeUnits[u]
\* and the second \s+ taking b characters
RelativeMatchWith(s, d, a, u, b) ==
    /\ d \in 1..DigitRun(s, 1)
    /\ a \in 1..SpaceRun(s, 1 + d)
    /\ StartsWithAt(s, 1 + d + a, RelativeUnits[u])
    /\ b \in 1..SpaceRun(s, 1 + d + a + Len(RelativeUnits[u]))
    /\ StartsWithAt(s, 1 + d + a + Len(RelativeUnits[u]) + b, <<"a", "g", "o">>)

RelativeMatches(s) ==
    UNION {UNION {UNION {
        {<<d, a, u, b>> : b \in {x \in 1..SpaceRun(s, 1 + d + a + Len(RelativeUnits[u])) :
                                    RelativeMatchWith(s, d, a, u, x)}}
        : u \in {x \in 1..Len(RelativeUnits) : StartsWithAt(s, 1 + d + a, RelativeUnits[x])}}
        : a \in 1..SpaceRun(s, 1 + d)}
        : d \in 1..DigitRun(s, 1)}

\* the match the backtracking engine reports: the longest \d+ first (greedy), then
\* the longest first \s+, then the earliest alternative
RelativeMatch(s) ==
    CHOOSE m \in RelativeMatches(s) :
        \A n \in RelativeMatches(s) :
            \/ m[1] > n[1]
            \/ m[1] = n[1] /\ m[2] > n[2]
            \/ m[1] = n[1] /\ m[2] = n[2] /\ m[3] <= n[3]

\* timedelta(**delta_kwargs) for the unit matched: [days, minutes], or the
\* OverflowError timedelta raises beyond TimedeltaMaxDays
relative_delta(value, unit) ==
    IF Contains(unit, <<"m", "i", "n", "u", "t", "e">>)
    THEN Ret([days |-> value \div MinutesPerDay, minutes |-> value % MinutesPerDay])
    ELSE IF Contains(unit, <<"h", "o", "u", "r">>)
    THEN Ret([days |-> value \div 24, minutes |-> (value % 24) * 60])
    ELSE IF Contains(unit, <<"d", "a", "y">>)
    THEN IF value > TimedeltaMaxDays
         THEN Raise("OverflowError")
         ELSE Ret([days |-> value, minutes |-> 0])
    ELSE \* "week" in unit
         IF value > TimedeltaMaxDays \div 7
         THEN Raise("OverflowError")
         ELSE Ret([days |-> 7 * value, minutes |-> 0])

\* now - delta: datetime raises OverflowError when the result leaves year 1..9999
datetime_sub(now, delta) ==
    LET borrow == IF now.minute < delta.minutes THEN 1 ELSE 0
        day == now.day - delta.days - borrow
    IN  IF day < MinOrdinal
        THEN Raise("OverflowError")
        ELSE Ret([day |-> day,
                  minute |-> (now.minute - delta.minutes) % MinutesPerDay])

\* text_clean after the leading "posted" is stripped
strip_posted(text_clean) ==
    IF StartsWith(text_clean, <<"p", "o", "s", "t", "e", "d">>)
    THEN Strip(From(text_clean, Len(<<"p", "o", "s", "t", "e", "d">>) + 1), {" ", ",", "-"})
    ELSE text_clean

\* parse_created_at(text) at the time now, where dp is what date_parser.parse
\* makes of the stripped text: None when it raises, else <<timestamp>>
parse_created_at(text, now, dp) ==
    LET text_clean == Lower(clean_text(text))
        stripped == strip_posted(text_clean)
    IN  IF text_clean = <<>> THEN Ret(Txt(<<>>))
        ELSE IF RelativeMatches(stripped) # {}
        THEN LET m == RelativeMatch(stripped)
                 value == int_of(SubSeq(stripped, 1, m[1]))
                 delta == relative_delta(value, RelativeUnits[m[3]])
             IN  IF delta.kind = "raise" THEN delta
                 ELSE LET created == datetime_sub(now, delta.val)
                      IN  IF created.kind = "raise" THEN created
                          ELSE Ret(Iso(created.val))
        ELSE IF stripped = <<"y", "e", "s", "t", "e", "r", "d", "a", "y">>
        THEN LET created == datetime_sub(now, [days |-> 1, minutes |-> 0])
             IN  IF created.kind = "raise" THEN created
                 ELSE Ret(Iso(created.val))
        ELSE IF dp # None
        THEN Ret(Iso(dp[1]))
        ELSE Ret(Txt(clean_text(text)))

----------------------------------------------------------------------------
(* utils_text.parse_budget, parse_client_spent, parse_job_type *)

parse_budget(text) == clean_text(text)

parse_client_spent(text) == clean_text(text)

parse_job_type(text) ==
    LET text_clean == Lower(clean_text(text))
    IN  IF Contains(text_clean, <<"h", "o", "u", "r", "l", "y">>) THEN <<"H", "o", "u", "r", "l", "y">>
        ELSE IF \/ Contains(text_clean, <<"f", "i", "x", "e", "d", "-", "p", "r", "i", "c", "e">>)
                \/ Contains(text_clean, <<"f", "i", "x", "e", "d", " ", "p", "r", "i", "c", "e">>)
        THEN <<"F", "i", "x", "e", "d">>
        ELSE <<>>

----------------------------------------------------------------------------
(* utils_text.parse_client_reviews *)

ReviewsUpper == 10000

\* re.search(r"(\d+)\s+reviews", s) can match starting at index i with \d+
\* taking d digits and \s+ taking a characters
ReviewsMatchAt(s, i, d, a) ==
    /\ d \in 1..DigitRun(s, i)
    /\ a \in 1..SpaceRun(s, i + d)
    /\ StartsWithAt(s, i + d + a, <<"r", "e", "v", "i", "e", "w", "s">>)

\* the digit counts d with which a match can start at index i
ReviewsMatchDigits(s, i) ==
    {d \in 1..DigitRun(s, i) : \E a \in 1..SpaceRun(s, i + d) : ReviewsMatchAt(s, i, d, a)}

ReviewsMatchStarts(s) == {i \in 1..Len(s) : ReviewsMatchDigits(s, i) # {}}

\* m.group(1) of re.search: the leftmost start, and there the longest \d+
reviews_group1(s) ==
    LET i == CHOOSE x \in ReviewsMatchStarts(s) :
                 \A y \in ReviewsMatchStarts(s) : x <= y
        d == CHOOSE x \in ReviewsMatchDigits(s, i) :
                 \A y \in ReviewsMatchDigits(s, i) : y <= x
    IN  SubSeq(s, i, i + d - 1)

\* re.findall(r"\d+", s): the matches start where a digit follows no match
findall_digits(s) ==
    LET starts == SelectSeq([i \in 1..Len(s) |-> i],
                            LAMBDA i : s[i] \in Digits /\ (i = 1 \/ s[i - 1] \notin Digits))
    IN  [k \in 1..Len(starts) |-> SubSeq(s, starts[k], starts[k] + DigitRun(s, starts[k]) - 1)]

RECURSIVE first_reasonable_inclusive(_)
\* first_reasonable with the lower bound of the range included: 0 <= n < 10000
first_reasonable_inclusive(numbers) ==
    IF numbers = <<>> THEN 0
    ELSE IF 0 <= Head(numbers) /\ Head(numbers) < ReviewsUpper THEN Head(numbers)
    ELSE first_reasonable_inclusive(Tail(numbers))

RECURSIVE first_reasonable(_)
\* for n in numbers: if 0 < n < 10000: return n; after the loop: return 0
first_reasonable(numbers) ==
    IF numbers = <<>> THEN 0
    ELSE IF 0 < Head(numbers) /\ Head(numbers) < ReviewsUpper THEN Head(numbers)
    ELSE first_reasonable(Tail(numbers))

parse_client_reviews(text) ==
    LET text_clean == Lower(clean_text(text))
        found == findall_digits(text_clean)
        numbers == [k \in 1..Len(found) |-> int_of(found[k])]
    IN  IF ReviewsMatchStarts(text_clean) # {}
        THEN int_of(reviews_group1(text_clean))
        ELSE first_reasonable(numbers)

----------------------------------------------------------------------------
(* utils_text.parse_skills_list *)

RECURSIVE skills_loop(_, _, _)
\* the loop body over the rest of skills_raw, with the locals cleaned and seen
skills_loop(rest, cleaned, seen) ==
    IF rest = <<>> THEN cleaned
    ELSE LET skill == clean_text(Head(rest))
             key == Lower(skill)
         IN  IF skill = <<>> THEN skills_loop(Tail(rest), cleaned, seen)
             ELSE IF key \in seen THEN skills_loop(Tail(rest), cleaned, seen)
             ELSE skills_loop(Tail(rest), Append(cleaned, skill), seen \cup {key})

RECURSIVE skills_loop_case_sensitive(_, _, _)
\* skills_loop with key = skill in place of key = skill.lower()
skills_loop_case_sensitive(rest, cleaned, seen) ==
    IF rest = <<>> THEN cleaned
    ELSE LET skill == clean_text(Head(rest))
         IN  IF skill = <<>> \/ skill \in seen
             THEN skills_loop_case_sensitive(Tail(rest), cleaned, seen)
             ELSE skills_loop_case_sensitive(Tail(rest), Append(cleaned, skill),
                                             seen \cup {skill})

parse_skills_list_case_sensitive(skills_raw) ==
    skills_loop_case_sensitive(skills_raw, <<>>, {})

parse_skills_list(skills_raw) == skills_loop(skills_raw, <<>>, {})

----------------------------------------------------------------------------
(* The markup as upwork_parser.py queries it.                               *)
(*                                                                          *)
(* A page (html) is the sequence of its container nodes in document order;  *)
(* the empty page text is <<>>. A node is                                   *)
(*   [tag, classes, test, attrs, elems, dp]                                 *)
(* with tag its element name, classes its class tokens, test its data-test  *)
(* attribute ("" when it has none), attrs its id-bearing attributes (each   *)
(* None or <<value>>), elems its descendant elements in document order and  *)
(* dp what date_parser.parse makes of its "posted" text. An element is      *)
(*   [tag, test, cls, aria, href, text]                                     *)
(* with cls and aria the class and aria-label attribute values, href None   *)
(* or <<value>> and text its get_text(). Elements do not nest.              *)


\* the attributes _parse_single_job reads the job id from, in its order
IdAttrs == <<"data-job-id", "data-ev-job-id", "data-test-job-id">>

\* Tag.select_one(selector): the first element, in document order, that matches
select_one(hits) == IF hits = <<>> THEN None ELSE Some(Head(hits))

\* Tag.select(selector): every element that matches, in document order
select(hits) == hits

RECURSIVE JoinWithSpace(_)
\* " ".join(parts)
JoinWithSpace(parts) ==
    IF parts = <<>> THEN <<>>
    ELSE IF Len(parts) = 1 THEN Head(parts)
    ELSE Head(parts) \o <<" ">> \o JoinWithSpace(Tail(parts))

\* card.get_text(" ", strip=True): the stripped, non-empty strings joined by " "
card_text(card) ==
    LET stripped == [i \in 1..Len(card.elems) |-> Strip(card.elems[i].text, Whitespace)]
    IN  JoinWithSpace(SelectSeq(stripped, LAMBDA t : t # <<>>))

\* the selectors of _parse_single_job
IsJobLink(e) ==
    /\ e.tag = "a"
    /\ e.href # None
    /\ (Contains(e.href[1], <<"/", "j", "o", "b", "s", "/">>) \/ Contains(e.href[1], <<"/", "j", "o", "b", "/">>))

IsTitle(e) == e.test = "job-title-link" \/ e.tag \in {"h4", "h3", "a"}

IsDescription(e) ==
    \/ e.test = "job-description-text"
    \/ (e.tag = "div" /\ Contains(e.cls, <<"d", "e", "s", "c", "r", "i", "p", "t", "i", "o", "n">>))
    \/ e.tag = "p"

IsPostedOn(e) == e.test = "job-posted-on"

IsSmallOrSpan(e) == e.tag \in {"small", "span"}

IsDuration(e) ==
    e.test = "job-duration" \/ (e.tag = "span" /\ Contains(e.text, <<"m", "o", "n", "t", "h">>))

IsBudget(e) ==
    \/ e.test \in {"job-budget", "job-hourly-rate"}
    \/ (e.tag \in {"span", "strong"} /\ Contains(e.text, <<"$">>))

IsLocation(e) ==
    e.test = "client-location" \/ (e.tag = "span" /\ Contains(e.aria, <<"l", "o", "c", "a", "t", "i", "o", "n">>))

IsSpent(e) == e.test = "client-spent"

IsCategory(e) == e.test \in {"job-category", "job-subcategory"}

IsSkill(e) == e.test = "skill-chip" \/ (e.tag = "a" /\ Contains(e.cls, <<"s", "k", "i", "l", "l">>))

\* s.split(c, 1)[-1]: what follows the first c (s itself when it has no c)
AfterFirst(s, c) == IF Find(s, <<c>>) = 0 THEN s ELSE From(s, Find(s, <<c>>) + 1)

\* s.split(c)[0]: what precedes the first c (s itself when it has no c)
BeforeFirst(s, c) == IF Find(s, <<c>>) = 0 THEN s ELSE SubSeq(s, 1, Find(s, <<c>>) - 1)

RECURSIVE AfterLast(_, _)
\* s.split(c)[-1]: what follows the last c (s itself when it has no c)
AfterLast(s, c) == IF Find(s, <<c>>) = 0 THEN s ELSE AfterLast(AfterFirst(s, c), c)

\* the job id taken from the href of a job link
job_id_from_href(href) ==
    IF Contains(href, <<"~">>)
    THEN BeforeFirst(BeforeFirst(AfterFirst(href, "~"), "/"), "?")
    ELSE BeforeFirst(AfterLast(RStrip(href, {"/"}), "/"), "?")

RECURSIVE first_attr(_, _)
\* for attr in (...): job_id = card.get(attr); if job_id: break
\* the value job_id holds after the loop over the attributes from index i on
first_attr(card, i) ==
    LET job_id == card.attrs[IdAttrs[i]]
    IN  IF job_id # None /\ job_id[1] # <<>> THEN job_id
        ELSE IF i = Len(IdAttrs) THEN job_id
        ELSE first_attr(card, i + 1)

\* a value Python takes as false: None or ""
Falsy(opt) == opt = None \/ opt[1] = <<>>

\* job_id as _parse_single_job resolves it: None or <<string>>
resolve_job_id(card) ==
    LET job_id == first_attr(card, 1)
        link == select_one(SelectSeq(card.elems, IsJobLink))
    IN  IF ~Falsy(job_id) THEN job_id
        ELSE IF link # None THEN Some(job_id_from_href(link[1].href[1]))
        ELSE job_id

\* clean_text(el.get_text()) if el else ""
text_of(el) == IF el # None THEN clean_text(el[1].text) ELSE <<>>

resolve_title(card) == text_of(select_one(SelectSeq(card.elems, IsTitle)))

resolve_description(card) == text_of(select_one(SelectSeq(card.elems, IsDescription)))

\* created_text: the "posted on" element's text, else the text of the first
\* small or span whose stripped text starts with "posted"
resolve_created_text(card) ==
    LET created_el == select_one(SelectSeq(card.elems, IsPostedOn))
        stripped == [i \in 1..Len(card.elems) |->
                        [card.elems[i] EXCEPT !.text = Strip(@, Whitespace)]]
        posted == select_one(SelectSeq(stripped,
                     LAMBDA e : IsSmallOrSpan(e) /\ StartsWith(Lower(e.text), <<"p", "o", "s", "t", "e", "d">>)))
    IN  IF created_el # None THEN created_el[1].text
        ELSE IF posted # None THEN posted[1].text
        ELSE <<>>

\* _parse_single_job(card) at the time now: Ret(None), Ret(<<job>>), or the
\* exception a normalizer raises
parse_single_job(card, now) ==
    LET job_id == resolve_job_id(card)
        title == resolve_title(card)
        description == resolve_description(card)
        created_at == parse_created_at(resolve_created_text(card), now, card.dp)
        skills == select(SelectSeq(card.elems, IsSkill))
    IN  IF created_at.kind = "raise" THEN created_at
        ELSE IF Falsy(job_id) /\ title = <<>> /\ description = <<>> THEN Ret(None)
        ELSE Ret(Some(
            [jobId |-> IF Falsy(job_id) THEN <<>> ELSE job_id[1],
             title |-> title,
             description |-> description,
             createdAt |-> created_at.val,
             jobType |-> parse_job_type(card_text(card)),
             duration |-> text_of(select_one(SelectSeq(card.elems, IsDuration))),
             budget |-> parse_budget(text_of(select_one(SelectSeq(card.elems, IsBudget)))),
             clientLocation |-> text_of(select_one(SelectSeq(card.elems, IsLocation))),
             clientPaymentVerification |->
                 Contains(Lower(card_text(card)), <<"p", "a", "y", "m", "e", "n", "t", " ", "v", "e", "r", "i", "f", "i", "e", "d">>),
             clientSpent |-> parse_client_spent(text_of(select_one(SelectSeq(card.elems, IsSpent)))),
             clientReviews |-> parse_client_reviews(card_text(card)),
             category |-> text_of(select_one(SelectSeq(card.elems, IsCategory))),
             skills |-> parse_skills_list([i \in 1..Len(skills) |-> skills[i].text])]))

----------------------------------------------------------------------------
(* UpworkJobScraper.parse_jobs_from_html *)

\* the card containers: the first selector of the cascade that matches anything
job_cards(html) ==
    LET air == SelectSeq(html, LAMBDA n : n.tag = "section" /\ "air-card" \in n.classes)
        tile == SelectSeq(html, LAMBDA n : n.tag = "div" /\ n.test = "job-tile")
        section == SelectSeq(html, LAMBDA n : n.tag = "section")
        article == SelectSeq(html, LAMBDA n : n.tag = "article")
    IN  IF air # <<>> THEN air
        ELSE IF tile # <<>> THEN tile
        ELSE IF section # <<>> THEN section
        ELSE article

RECURSIVE cards_loop_no_try(_, _, _)
\* cards_loop without the try/except around the extraction of a card
cards_loop_no_try(cards, jobs, now) ==
    IF cards = <<>> THEN Ret(jobs)
    ELSE LET job == parse_single_job(Head(cards), now)
         IN  IF job.kind = "raise" THEN job
             ELSE IF job.val # None
             THEN cards_loop_no_try(Tail(cards), Append(jobs, job.val[1]), now)
             ELSE cards_loop_no_try(Tail(cards), jobs, now)

RECURSIVE cards_loop(_, _, _)
\* for card in job_cards: try: job = ...; if job: jobs.append(job)
\*                        except Exception: (logged)
\* and then: return jobs
cards_loop(cards, jobs, now) ==
    IF cards = <<>> THEN Ret(jobs)
    ELSE LET job == parse_single_job(Head(cards), now)
         IN  IF job.kind = "raise" THEN cards_loop(Tail(cards), jobs, now)
             ELSE IF job.val # None THEN cards_loop(Tail(cards), Append(jobs, job.val[1]), now)
             ELSE cards_loop(Tail(cards), jobs, now)

\* parse_jobs_from_html(html) at the time now
parse_jobs_from_html(html, now) ==
    IF html = <<>> THEN Ret(<<>>)
    ELSE cards_loop(job_cards(html), <<>>, now)

----------------------------------------------------------------------------
(* UpworkJobScraper._build_url and fetch_search_page *)


\* prefix + (what a call returned), or the exception the call raised
Prepend(prefix, outcome) ==
    IF outcome.kind = "raise" THEN outcome ELSE Ret(prefix \o outcome.val)

RECURSIVE format_page(_, _)
\* template.format(page=page) for templates whose replacement fields carry no
\* conversion and no format spec: "{{" and "}}" are the escaped braces,
\* "{page}" is replaced, any other field has no argument (KeyError or
\* IndexError) and a lone brace is a ValueError
format_page(t, page) ==
    IF t = <<>> THEN Ret(<<>>)
    ELSE IF Head(t) = "{"
    THEN IF Len(t) >= 2 /\ t[2] = "{" THEN Prepend(<<"{">>, format_page(From(t, 3), page))
         ELSE IF Find(t, <<"}">>) = 0 THEN Raise("ValueError")
         ELSE IF SubSeq(t, 2, Find(t, <<"}">>) - 1) = <<"p", "a", "g", "e">>
         THEN Prepend(IntToStr(page), format_page(From(t, Find(t, <<"}">>) + 1), page))
         ELSE Raise("KeyError")
    ELSE IF Head(t) = "}"
    THEN IF Len(t) >= 2 /\ t[2] = "}" THEN Prepend(<<"}">>, format_page(From(t, 3), page))
         ELSE Raise("ValueError")
    ELSE Prepend(<<Head(t)>>, format_page(Tail(t), page))

\* _build_url(page) for the template t
build_url(t, page) ==
    IF Contains(t, <<"{", "p", "a", "g", "e", "}">>) THEN format_page(t, page)
    ELSE IF Contains(t, <<"?">>)
    THEN IF Contains(t, <<"p", "a", "g", "e", "=">>)
         THEN Ret(SubSeq(t, 1, Find(t, <<"p", "a", "g", "e", "=">>) - 1) \o <<"p", "a", "g", "e", "=">> \o IntToStr(page))
         ELSE Ret(t \o <<"&", "p", "a", "g", "e", "=">> \o IntToStr(page))
    ELSE Ret(t \o <<"?", "p", "a", "g", "e", "=">> \o IntToStr(page))

\* what session.get and raise_for_status make of a request: a response with a
\* text, or a requests.RequestException
Response(text) == [failed |-> FALSE, text |-> text]
RequestException == [failed |-> TRUE, text |-> <<>>]

\* the rest of fetch_search_page once the url is built: resp.text, or "" when
\* the request raised
fetch_text(resp) == IF resp.failed THEN <<>> ELSE resp.text

----------------------------------------------------------------------------
(* UpworkJobScraper.scrape *)

\* stop_before_page with > in place of >=
stop_before_page_strict(jobs, max_items) == Len(jobs) > max_items

\* if len(jobs) >= self.max_items: break            (before a page is fetched)
stop_before_page(jobs, max_items) == Len(jobs) >= max_items

\* after_fetch with continue in place of break: on to the next page
after_fetch_continue(html) == IF html = <<>> THEN "pause" ELSE "parse"

\* scrape's step after fetch_search_page returned html: break on an empty text
after_fetch(html) == IF html = <<>> THEN "returned" ELSE "parse"

\* stop_after_append with > in place of >=
stop_after_append_strict(jobs, max_items) == Len(jobs) > max_items

\* if len(jobs) >= self.max_items: break            (after an append)
stop_after_append(jobs, max_items) == Len(jobs) >= max_items

\* if page < max_pages and len(jobs) < self.max_items: time.sleep(...)
pause_due(page, max_pages, jobs, max_items) == page < max_pages /\ Len(jobs) < max_items

\* time.sleep(secs) raises ValueError for a negative length
sleep(secs) == IF secs < 0 THEN Raise("ValueError") ELSE Ret(None)

----------------------------------------------------------------------------
(* outputs/exporter.py: the column order of the tabular exports.            *)
(* A record is the sequence of its keys in insertion order, which is what   *)
(* the column order depends on; a key is a string of letters.               *)

Key ==
    [ jobId |-> <<"j", "o", "b", "I", "d">>,
      title |-> <<"t", "i", "t", "l", "e">>,
      skills |-> <<"s", "k", "i", "l", "l", "s">>,
      url |-> <<"u", "r", "l">>,
      Zip |-> <<"Z", "i", "p">>,
      apply |-> <<"a", "p", "p", "l", "y">> ]

\* preferred_order of _collect_fieldnames
preferred_order ==
    <<<<"j", "o", "b", "I", "d">>,
      <<"t", "i", "t", "l", "e">>,
      <<"d", "e", "s", "c", "r", "i", "p", "t", "i", "o", "n">>,
      <<"c", "r", "e", "a", "t", "e", "d", "A", "t">>,
      <<"j", "o", "b", "T", "y", "p", "e">>,
      <<"d", "u", "r", "a", "t", "i", "o", "n">>,
      <<"b", "u", "d", "g", "e", "t">>,
      <<"c", "l", "i", "e", "n", "t", "L", "o", "c", "a", "t", "i", "o", "n">>,
      <<"c", "l", "i", "e", "n", "t", "P", "a", "y", "m", "e", "n", "t", "V", "e", "r", "i", "f", "i", "c", "a", "t", "i", "o", "n">>,
      <<"c", "l", "i", "e", "n", "t", "S", "p", "e", "n", "t">>,
      <<"c", "l", "i", "e", "n", "t", "R", "e", "v", "i", "e", "w", "s">>,
      <<"c", "a", "t", "e", "g", "o", "r", "y">>,
      <<"s", "k", "i", "l", "l", "s">>>>

Fmt ==
    [ json |-> <<"j", "s", "o", "n">>,
      csv |-> <<"c", "s", "v">>,
      excel |-> <<"e", "x", "c", "e", "l">>,
      xml |-> <<"x", "m", "l">> ]

\* ord(c) for the letters
CodePoint(c) ==
    CASE c = "A" -> 65
      [] c = "B" -> 66
      [] c = "C" -> 67
      [] c = "D" -> 68
      [] c = "E" -> 69
      [] c = "F" -> 70
      [] c = "G" -> 71
      [] c = "H" -> 72
      [] c = "I" -> 73
      [] c = "J" -> 74
      [] c = "K" -> 75
      [] c = "L" -> 76
      [] c = "M" -> 77
      [] c = "N" -> 78
      [] c = "O" -> 79
      [] c = "P" -> 80
      [] c = "Q" -> 81
      [] c = "R" -> 82
      [] c = "S" -> 83
      [] c = "T" -> 84
      [] c = "U" -> 85
      [] c = "V" -> 86
      [] c = "W" -> 87
      [] c = "X" -> 88
      [] c = "Y" -> 89
      [] c = "Z" -> 90
      [] c = "a" -> 97
      [] c = "b" -> 98
      [] c = "c" -> 99
      [] c = "d" -> 100
      [] c = "e" -> 101
      [] c = "f" -> 102
      [] c = "g" -> 103
      [] c = "h" -> 104
      [] c = "i" -> 105
      [] c = "j" -> 106
      [] c = "k" -> 107
      [] c = "l" -> 108
      [] c = "m" -> 109
      [] c = "n" -> 110
      [] c = "o" -> 111
      [] c = "p" -> 112
      [] c = "q" -> 113
      [] c = "r" -> 114
      [] c = "s" -> 115
      [] c = "t" -> 116
      [] c = "u" -> 117
      [] c = "v" -> 118
      [] c = "w" -> 119
      [] c = "x" -> 120
      [] c = "y" -> 121
      [] c = "z" -> 122

\* a < b for two str: the first differing character decides, else the length
StrLess(a, b) ==
    LET n == IF Len(a) < Len(b) THEN Len(a) ELSE Len(b)
        diffs == {i \in 1..n : a[i] # b[i]}
    IN  IF diffs = {} THEN Len(a) < Len(b)
        ELSE CodePoint(a[Min(diffs)]) < CodePoint(b[Min(diffs)])

\* sorted(S) for a set of str
sorted(S) ==
    [k \in 1..Cardinality(S) |->
        CHOOSE x \in S : Cardinality({y \in S : StrLess(y, x)}) = k - 1]

\* the elements of a sequence
Range(q) == {q[i] : i \in 1..Len(q)}

\* fields.update(item.keys()) over the records
all_fields(data) == UNION {Range(data[i]) : i \in 1..Len(data)}

\* _collect_fieldnames(data)
collect_fieldnames(data) ==
    LET fields == all_fields(data)
        ordered == SelectSeq(preferred_order, LAMBDA f : f \in fields)
    IN  ordered \o sorted(fields \ Range(preferred_order))

\* the columns of pd.DataFrame(flattened) for a list of dicts: the keys in the
\* order in which the records first bring them
dataframe_columns(data) ==
    LET keys == Concat(data)
        first == SelectSeq([i \in 1..Len(keys) |-> i],
                           LAMBDA i : \A j \in 1..(i - 1) : keys[j] # keys[i])
    IN  [k \in 1..Len(first) |-> keys[first[k]]]

\* the header row _export_csv writes: writer.writeheader() of fieldnames
export_csv_columns(data) == collect_fieldnames(data)

\* the header row _export_excel writes: df.to_excel of the frame's columns
export_excel_columns(data) == dataframe_columns(data)

\* export(data, fmt, file_prefix): ValueError for no data or an unknown format,
\* else the file of the format; columns is the header of a tabular file
export(data, fmt) ==
    LET fmt_lower == Lower(fmt)
    IN  IF data = <<>> THEN Raise("ValueError")
        ELSE IF fmt_lower \notin {Fmt.json, Fmt.csv, Fmt.excel, Fmt.xml} THEN Raise("ValueError")
        ELSE IF fmt_lower = Fmt.csv
        THEN Ret([format |-> "csv", columns |-> export_csv_columns(data)])
        ELSE IF fmt_lower = Fmt.excel
        THEN Ret([format |-> "excel", columns |-> export_excel_columns(data)])
        ELSE IF fmt_lower = Fmt.json THEN Ret([format |-> "json", columns |-> <<>>])
        ELSE Ret([format |-> "xml", columns |-> <<>>])

----------------------------------------------------------------------------
(* The text normalizers called on their own: the inputs *)

\* the bounds of the inputs
MaxFrags == 3
MaxSkills == 3

SeqsUpTo(S, n) == UNION {[1..k -> S] : k \in 0..n}

\* the pieces the input texts of parse_created_at are made of
CreatedFrags ==
    {<<"P", "o", "s", "t", "e", "d", " ">>,
     <<"3">>,
     <<"9", "9", "9", "9", "9", "9", "9", "9", "9">>,
     <<" ", "d", "a", "y", "s", " ", "a", "g", "o">>,
     <<" ", "w", "e", "e", "k", "s", " ", "a", "g", "o">>,
     <<" ", "m", "i", "n", "u", "t", "e", "s", " ", " ", "a", "g", "o">>,
     <<"y", "e", "s", "t", "e", "r", "d", "a", "y">>,
     <<"J", "a", "n", " ", "1", "0">>}

\* the pieces the input texts of parse_client_reviews are made of
ReviewsFrags ==
    {<<"4", "8">>,
     <<"0">>,
     <<"1", "2", "0", "0", "0">>,
     <<" ", "r", "e", "v", "i", "e", "w", "s">>,
     <<" ", "\t", "R", "E", "V", "I", "E", "W", "S">>,
     <<"r", "e", "v", "i", "e", "w", "s">>,
     <<" ">>,
     <<",", " ", "$", "1", "5", ",", "0", "0", "0", "+", " ", "s", "p", "e", "n", "t">>}

\* the entries the input lists of parse_skills_list are made of
SkillEntries ==
    {<<"P", "y", "t", "h", "o", "n">>,
     <<"p", "y", "t", "h", "o", "n", " ">>,
     <<"P", "Y", "T", "H", "O", "N">>,
     <<"G", "o">>,
     <<" ", "g", "o">>,
     <<>>,
     <<" ", "\t">>}

CreatedTexts == {Concat(f) : f \in SeqsUpTo(CreatedFrags, MaxFrags)}

\* the texts whose integers int_of represents exactly
ReviewsTexts ==
    {t \in {Concat(f) : f \in SeqsUpTo(ReviewsFrags, MaxFrags)} :
        \A i \in 1..Len(t) : DigitRun(t, i) <= 9}

\* the moments a call is made at
Nows == {[day |-> 739921, minute |-> 452], [day |-> 739921, minute |-> 2]}

\* what date_parser.parse makes of a text: it raises, or it returns a datetime
DateutilOutcomes == {None, Some([day |-> 739261, minute |-> 0])}

NoCall == [fn |-> "none", text |-> <<>>, list |-> <<>>, now |-> [day |-> 0, minute |-> 0],
           dp |-> None]

Calls ==
    {[NoCall EXCEPT !.fn = "parse_created_at", !.text = t, !.now = n, !.dp = d] :
        t \in CreatedTexts, n \in Nows, d \in DateutilOutcomes}
    \cup {[NoCall EXCEPT !.fn = "parse_client_reviews", !.text = t] : t \in ReviewsTexts}
    \cup {[NoCall EXCEPT !.fn = "parse_skills_list", !.list = l] :
            l \in SeqsUpTo(SkillEntries, MaxSkills)}

TxIdle == call = NoCall /\ tx_pc = "idle" /\ tx_result = None

TxInit == call \in Calls /\ tx_pc = "ready" /\ tx_result = None

CallParseCreatedAt ==
    /\ tx_pc = "ready"
    /\ call.fn = "parse_created_at"
    /\ tx_result' = parse_created_at(call.text, call.now, call.dp)
    /\ tx_pc' = "done"
    /\ UNCHANGED <<call, pg_vars, sc_vars, ex_vars>>

CallParseClientReviews ==
    /\ tx_pc = "ready"
    /\ call.fn = "parse_client_reviews"
    /\ tx_result' = Ret(parse_client_reviews(call.text))
    /\ tx_pc' = "done"
    /\ UNCHANGED <<call, pg_vars, sc_vars, ex_vars>>

CallParseSkillsList ==
    /\ tx_pc = "ready"
    /\ call.fn = "parse_skills_list"
    /\ tx_result' = Ret(parse_skills_list(call.list))
    /\ tx_pc' = "done"
    /\ UNCHANGED <<call, pg_vars, sc_vars, ex_vars>>

TxNext == CallParseCreatedAt \/ CallParseClientReviews \/ CallParseSkillsList


----------------------------------------------------------------------------
(* The page parser called on its own: the pages *)

MaxCards == 3

NoAttrs == [a \in {IdAttrs[i] : i \in 1..Len(IdAttrs)} |-> None]

Elem(tag, test, text) ==
    [tag |-> tag, test |-> test, cls |-> <<>>, aria |-> <<>>, href |-> None, text |-> text]

Link(href, test, text) == [Elem("a", test, text) EXCEPT !.href = Some(href)]

Node(tag, classes, test, elems) ==
    [tag |-> tag, classes |-> classes, test |-> test, attrs |-> NoAttrs,
     elems |-> elems, dp |-> None]

AirCard(elems) == Node("section", {"air-card"}, "", elems)

\* the containers the pages are made of
Cards ==
    [
      \* a card with every field: id attribute, title link, description, date, skills
      Full |->
        [AirCard(<<Link(<<"/", "j", "o", "b", "s", "/", "~", "0", "1", "/">>, "job-title-link", <<" ", "A", "n", " ", " ", "A", "P", "I", " ">>),
                   Elem("p", "", <<"H", "o", "u", "r", "l", "y">>),
                   Elem("small", "", <<"P", "o", "s", "t", "e", "d", " ", "3", " ", "d", "a", "y", "s", " ", "a", "g", "o">>),
                   Elem("strong", "", <<"$", "2", "5">>),
                   Elem("span", "", <<"4", "8", " ", "r", "e", "v", "i", "e", "w", "s">>),
                   Elem("span", "skill-chip", <<"G", "o">>),
                   Elem("span", "skill-chip", <<"g", "o", " ">>)>>)
         EXCEPT !.attrs["data-job-id"] = Some(<<"7", "7">>)],
      \* a card with a title and nothing else
      TitleOnly |->
        AirCard(<<Elem("h4", "", <<"F", "i", "x", " ", "b", "u", "g">>)>>),
      \* a card with no id, no link, no title and no description
      Noise |->
        AirCard(<<Elem("span", "", <<" ", "\t">>)>>),
      \* a card with a title whose date is further back than datetime reaches
      Overflow |->
        AirCard(<<Elem("h3", "", <<"O", "l", "d", " ", "j", "o", "b">>),
                  Elem("span", "job-posted-on", <<"P", "o", "s", "t", "e", "d", " ", "9", "9", "9", "9", "9", "9", "9", "9", "9", " ", "d", "a", "y", "s", " ", "a", "g", "o">>)>>),
      \* a card with no id, no title and no description and such a date
      NoiseOverflow |->
        AirCard(<<Elem("small", "", <<"p", "o", "s", "t", "e", "d", " ", "8", "0", "0", "0", "0", "0", " ", "d", "a", "y", "s", " ", "a", "g", "o">>)>>),
      \* a card whose only content is a job link without text
      LinkOnly |->
        [AirCard(<<Link(<<"/", "j", "o", "b", "/", "a", "b", "?", "x", "=", "1">>, "", <<>>)>>)
         EXCEPT !.attrs["data-job-id"] = Some(<<>>)],
      \* a card whose date only date_parser.parse can read
      Dated |->
        [AirCard(<<[Elem("div", "", <<"N", "e", "e", "d", " ", " ", "h", "e", "l", "p">>) EXCEPT !.cls = <<"j", "o", "b", "-", "d", "e", "s", "c", "r", "i", "p", "t", "i", "o", "n">>],
                   Elem("span", "job-posted-on", <<"J", "a", "n", " ", "1", "0">>)>>)
         EXCEPT !.attrs["data-test-job-id"] = Some(<<"9">>),
                !.dp = Some([day |-> 739261, minute |-> 0])],
      \* a job tile of the second selector of the cascade
      Tile |->
        Node("div", {}, "job-tile", <<Elem("h3", "", <<"T", "i", "l", "e">>)>>),
      \* a bare section and a bare article, the generic containers of the cascade
      Section |->
        Node("section", {}, "", <<Elem("p", "", <<"A", "b", "o", "u", "t", " ", "u", "s">>)>>),
      Article |->
        [Node("article", {}, "", <<>>) EXCEPT !.attrs["data-ev-job-id"] = Some(<<"5">>)],
      \* markup that is no container of any kind
      Filler |->
        Node("div", {}, "", <<Elem("p", "", <<"S", "i", "g", "n", " ", "i", "n">>)>>),
      \* a card whose generic h4 and p stand before its title link and its
      \* description text
      GenericFirst |->
        AirCard(<<Elem("h4", "", <<"N", "e", "w">>),
                  Elem("p", "", <<"A", "d">>),
                  Link(<<"/", "j", "o", "b", "s", "/", "~", "0", "2">>, "job-title-link", <<"F", "i", "x", " ", "C", "S", "S">>),
                  Elem("div", "job-description-text", <<"A", " ", " ", "b", "u", "g">>)>>),
      \* a card whose title link and description text stand first
      SpecificFirst |->
        AirCard(<<Link(<<"/", "j", "o", "b", "s", "/", "~", "0", "3">>, "job-title-link", <<"P", "o", "r", "t">>),
                  Elem("span", "job-description-text", <<"T", "o", " ", "G", "o">>),
                  Elem("h3", "", <<"H", "o", "t">>),
                  Elem("p", "", <<"T", "i", "p">>)>>),
      \* a card whose title link and description text are empty and stand first
      EmptySpecific |->
        AirCard(<<Link(<<"/", "j", "o", "b", "s", "/", "~", "0", "4">>, "job-title-link", <<" ">>),
                  Elem("div", "job-description-text", <<>>),
                  Elem("h3", "", <<"H", "o", "t">>),
                  Elem("p", "", <<"T", "i", "p">>)>>),
      \* a card with generic tags only
      GenericOnly |->
        AirCard(<<Elem("h3", "", <<"H", "o", "t">>), Elem("p", "", <<"T", "i", "p">>)>>)
    ]

Nodes ==
    {Cards.Full, Cards.TitleOnly, Cards.Noise, Cards.Overflow, Cards.NoiseOverflow, Cards.LinkOnly,
     Cards.Dated, Cards.Tile, Cards.Section, Cards.Article, Cards.Filler}

Pages == SeqsUpTo(Nodes, MaxCards)

\* the number of pieces an href is made of after its "/jobs/"
MaxHrefFrags == 3

\* the pieces of an href: a "~" id, a plain segment, a slash, and query strings
\* without and with a "/" or a "~" in them
HrefFrags ==
    {<<"~", "0", "1">>, <<"a", "b">>, <<"/">>, <<"?", "x", "=", "1">>, <<"?", "n", "=", "/", "h">>, <<"?", "t", "=", "~", "9">>}

\* the hrefs of job links
Hrefs ==
    {<<"/", "j", "o", "b", "s", "/">> \o Concat(q) : q \in SeqsUpTo(HrefFrags, MaxHrefFrags)}

\* cards without id attribute whose job link has such an href
HrefCards == {AirCard(<<Link(h, "", <<"J", "o", "b">>)>>) : h \in Hrefs}

\* the values an id attribute of a card can have: absent, empty, or an id
AttrValues == {None, Some(<<>>), Some(<<"7">>), Some(<<"8">>)}

\* cards with a job link and every setting of the three id attributes
AttrCards ==
    {[AirCard(<<Link(<<"/", "j", "o", "b", "s", "/", "~", "0", "5">>, "", <<"J", "o", "b">>)>>) EXCEPT !.attrs = f] :
        f \in [DOMAIN NoAttrs -> AttrValues]}

\* cards in which specific and generic candidates of a field stand in either order
CandidateCards ==
    {Cards.GenericFirst, Cards.SpecificFirst, Cards.EmptySpecific, Cards.GenericOnly}

\* the moment the page parser runs at
ParseNow == [day |-> 739921, minute |-> 452]

NoPgCall == [fn |-> "none", html |-> <<>>, card |-> None, now |-> [day |-> 0, minute |-> 0]]

PgCalls ==
    {[NoPgCall EXCEPT !.fn = "parse_jobs_from_html", !.html = h, !.now = ParseNow] :
        h \in Pages}
    \cup {[NoPgCall EXCEPT !.fn = "_parse_single_job", !.card = Some(c), !.now = n] :
            c \in Nodes \cup CandidateCards \cup HrefCards \cup AttrCards, n \in Nows}

PgIdle == pg_call = NoPgCall /\ pg_pc = "idle" /\ pg_result = None

PgInit == pg_call \in PgCalls /\ pg_pc = "ready" /\ pg_result = None

CallParseJobsFromHtml ==
    /\ pg_pc = "ready"
    /\ pg_call.fn = "parse_jobs_from_html"
    /\ pg_result' = parse_jobs_from_html(pg_call.html, pg_call.now)
    /\ pg_pc' = "done"
    /\ UNCHANGED <<pg_call, tx_vars, sc_vars, ex_vars>>

CallParseSingleJob ==
    /\ pg_pc = "ready"
    /\ pg_call.fn = "_parse_single_job"
    /\ pg_result' = parse_single_job(pg_call.card[1], pg_call.now)
    /\ pg_pc' = "done"
    /\ UNCHANGED <<pg_call, tx_vars, sc_vars, ex_vars>>

PgNext == CallParseJobsFromHtml \/ CallParseSingleJob

----------------------------------------------------------------------------
(* export() called on its own: the records and the formats *)

MaxRecords == 2

\* the key orders of the records: the scraper's, two others of recognized keys,
\* and two with keys the exporter does not know
KeyOrders ==
    {preferred_order,
     <<Key.title, Key.jobId>>,
     <<Key.jobId, Key.title>>,
     <<Key.jobId, Key.url, Key.Zip>>,
     <<Key.skills, Key.apply, Key.title>>}

Formats == {Fmt.json, Fmt.csv, <<"C", "S", "V">>, Fmt.excel, Fmt.xml, <<"p", "d", "f">>}

ExIdle == ex_data = <<>> /\ ex_fmt = <<>> /\ ex_pc = "idle" /\ ex_result = None

ExInit ==
    /\ ex_data \in SeqsUpTo(KeyOrders, MaxRecords)
    /\ ex_fmt \in Formats
    /\ ex_pc = "ready"
    /\ ex_result = None

\* export() refuses: no data, or a format it does not know
ExportRejects ==
    /\ ex_pc = "ready"
    /\ export(ex_data, ex_fmt).kind = "raise"
    /\ ex_result' = export(ex_data, ex_fmt)
    /\ ex_pc' = "done"
    /\ UNCHANGED <<ex_data, ex_fmt, tx_vars, pg_vars, sc_vars>>

\* export() writes the file
ExportWrites ==
    /\ ex_pc = "ready"
    /\ export(ex_data, ex_fmt).kind = "return"
    /\ ex_result' = export(ex_data, ex_fmt)
    /\ ex_pc' = "done"
    /\ UNCHANGED <<ex_data, ex_fmt, tx_vars, pg_vars, sc_vars>>

ExNext == ExportRejects \/ ExportWrites

----------------------------------------------------------------------------
(* scrape() as a state machine: the configurations and the site *)

MaxItems == 3
MaxPages == 3

\* a template with a placeholder, one without a query string, and one with a
\* second replacement field
UrlTemplates ==
    {<<"s", "?", "p", "a", "g", "e", "=", "{", "p", "a", "g", "e", "}">>,
     <<"s">>,
     <<"s", "?", "q", "=", "{", "q", "}", "&", "p", "=", "{", "p", "a", "g", "e", "}">>,
     <<"s", "?", "p", "a", "g", "e", "=", "1", "&", "q", "=", "x">>,
     <<"s", "?", "q", "=", "x">>,
     <<"s", "?", "q", "=", "x", "&", "p", "a", "g", "e", "=", "1">>,
     <<"s", "?", "m", "y", "p", "a", "g", "e", "=", "1">>}

DelaySeconds == {-1, 2}

\* the pages the site serves (2, 1, 3 and 0 records)
SitePages ==
    {<<Cards.Full, Cards.TitleOnly>>,
     <<Cards.Overflow, Cards.LinkOnly, Cards.Noise>>,
     <<Cards.Dated, Cards.TitleOnly, Cards.Full>>}

\* the outcomes of a request: a page, an empty body, a failure or timeout
Responses == {Response(h) : h \in SitePages \cup {<<>>}} \cup {RequestException}

Configs ==
    [search_url_template : UrlTemplates,
     max_items : -1..MaxItems,
     delay_seconds : DelaySeconds,
     max_pages : -1..MaxPages]

NoConfig == [search_url_template |-> <<>>, max_items |-> 0, delay_seconds |-> 0,
             max_pages |-> 0]

ScIdle ==
    /\ sc_cfg = NoConfig
    /\ sc_pc = "idle"
    /\ sc_page = 0
    /\ sc_jobs = <<>>
    /\ sc_html = <<>>
    /\ sc_page_jobs = <<>>
    /\ sc_terminal = ""
    /\ sc_fetched = <<>>
    /\ sc_slept = <<>>

\* scrape(max_pages) is entered: jobs = [], and the loop starts with page 1
ScInit ==
    /\ sc_cfg \in Configs
    /\ sc_pc = "head"
    /\ sc_page = 1
    /\ sc_jobs = <<>>
    /\ sc_html = <<>>
    /\ sc_page_jobs = <<>>
    /\ sc_terminal = ""
    /\ sc_fetched = <<>>
    /\ sc_slept = <<>>

\* for page in range(1, max_pages + 1): the range is used up
PagesExhausted ==
    /\ sc_pc = "head"
    /\ sc_page > sc_cfg.max_pages
    /\ sc_pc' = "returned"
    /\ sc_terminal' = "pages exhausted"
    /\ UNCHANGED <<tx_vars, pg_vars, ex_vars>>
    /\ UNCHANGED <<sc_cfg, sc_page, sc_jobs, sc_html, sc_page_jobs, sc_fetched, sc_slept>>

\* the check at the head of the loop body finds the cap reached: break
CapReached ==
    /\ sc_pc = "head"
    /\ sc_page <= sc_cfg.max_pages
    /\ stop_before_page(sc_jobs, sc_cfg.max_items)
    /\ sc_pc' = "returned"
    /\ sc_terminal' = "cap reached"
    /\ UNCHANGED <<tx_vars, pg_vars, ex_vars>>
    /\ UNCHANGED <<sc_cfg, sc_page, sc_jobs, sc_html, sc_page_jobs, sc_fetched, sc_slept>>

\* the check at the head of the loop body passes
EnterPage ==
    /\ sc_pc = "head"
    /\ sc_page <= sc_cfg.max_pages
    /\ ~stop_before_page(sc_jobs, sc_cfg.max_items)
    /\ sc_pc' = "fetch"
    /\ UNCHANGED <<tx_vars, pg_vars, ex_vars>>
    /\ UNCHANGED <<sc_cfg, sc_page, sc_jobs, sc_html, sc_page_jobs, sc_terminal,
                   sc_fetched, sc_slept>>

\* html = self.fetch_search_page(page); if not html: break
\* _build_url runs outside fetch_search_page's try: what it raises leaves scrape
FetchPage ==
    /\ sc_pc = "fetch"
    /\ LET url == build_url(sc_cfg.search_url_template, sc_page)
       IN  IF url.kind = "raise"
           THEN /\ sc_pc' = "raised"
                /\ sc_terminal' = url.val
                /\ UNCHANGED <<sc_html, sc_fetched>>
           ELSE \E resp \in Responses :
                   LET html == fetch_text(resp)
                   IN  /\ sc_html' = html
                       /\ sc_fetched' = Append(sc_fetched,
                              [page |-> sc_page, url |-> url.val, failed |-> resp.failed,
                               html |-> html, count |-> Len(sc_jobs)])
                       /\ sc_pc' = after_fetch(html)
                       /\ sc_terminal' =
                              IF after_fetch(html) = "returned" THEN "fetch exhausted"
                              ELSE sc_terminal
    /\ UNCHANGED <<tx_vars, pg_vars, ex_vars>>
    /\ UNCHANGED <<sc_cfg, sc_page, sc_jobs, sc_page_jobs, sc_slept>>

\* page_jobs = self.parse_jobs_from_html(html)
ParsePage ==
    /\ sc_pc = "parse"
    /\ LET page_jobs == parse_jobs_from_html(sc_html, ParseNow)
       IN  IF page_jobs.kind = "raise"
           THEN /\ sc_pc' = "raised"
                /\ sc_terminal' = page_jobs.val
                /\ UNCHANGED sc_page_jobs
           ELSE /\ sc_pc' = "append"
                /\ sc_page_jobs' = page_jobs.val
                /\ UNCHANGED sc_terminal
    /\ UNCHANGED <<tx_vars, pg_vars, ex_vars>>
    /\ UNCHANGED <<sc_cfg, sc_page, sc_jobs, sc_html, sc_fetched, sc_slept>>

\* for job in page_jobs: jobs.append(job); if len(jobs) >= self.max_items: break
AppendJob ==
    /\ sc_pc = "append"
    /\ sc_page_jobs # <<>>
    /\ sc_jobs' = Append(sc_jobs, Head(sc_page_jobs))
    /\ IF stop_after_append(sc_jobs', sc_cfg.max_items)
       THEN sc_pc' = "pause" /\ sc_page_jobs' = <<>>
       ELSE sc_pc' = "append" /\ sc_page_jobs' = Tail(sc_page_jobs)
    /\ UNCHANGED <<tx_vars, pg_vars, ex_vars>>
    /\ UNCHANGED <<sc_cfg, sc_page, sc_html, sc_terminal, sc_fetched, sc_slept>>

\* page_jobs is used up
AppendDone ==
    /\ sc_pc = "append"
    /\ sc_page_jobs = <<>>
    /\ sc_pc' = "pause"
    /\ UNCHANGED <<tx_vars, pg_vars, ex_vars>>
    /\ UNCHANGED <<sc_cfg, sc_page, sc_jobs, sc_html, sc_page_jobs, sc_terminal,
                   sc_fetched, sc_slept>>

\* if page < max_pages and len(jobs) < self.max_items: time.sleep(delay_seconds)
Pause ==
    /\ sc_pc = "pause"
    /\ pause_due(sc_page, sc_cfg.max_pages, sc_jobs, sc_cfg.max_items)
    /\ IF sleep(sc_cfg.delay_seconds).kind = "raise"
       THEN /\ sc_pc' = "raised"
            /\ sc_terminal' = sleep(sc_cfg.delay_seconds).val
            /\ UNCHANGED <<sc_page, sc_slept>>
       ELSE /\ sc_pc' = "head"
            /\ sc_page' = sc_page + 1
            /\ sc_slept' = Append(sc_slept, [page |-> sc_page, count |-> Len(sc_jobs)])
            /\ UNCHANGED sc_terminal
    /\ UNCHANGED <<tx_vars, pg_vars, ex_vars>>
    /\ UNCHANGED <<sc_cfg, sc_jobs, sc_html, sc_page_jobs, sc_fetched>>

\* no pause is due: on to the next page of the range
NextPage ==
    /\ sc_pc = "pause"
    /\ ~pause_due(sc_page, sc_cfg.max_pages, sc_jobs, sc_cfg.max_items)
    /\ sc_pc' = "head"
    /\ sc_page' = sc_page + 1
    /\ UNCHANGED <<tx_vars, pg_vars, ex_vars>>
    /\ UNCHANGED <<sc_cfg, sc_jobs, sc_html, sc_page_jobs, sc_terminal, sc_fetched,
                   sc_slept>>

ScNext ==
    \/ PagesExhausted
    \/ CapReached
    \/ EnterPage
    \/ FetchPage
    \/ ParsePage
    \/ AppendJob
    \/ AppendDone
    \/ Pause
    \/ NextPage

\* scrape() is entered; nothing else is called
Init == ScInit /\ TxIdle /\ PgIdle /\ ExIdle

\* scrape() from its entry on
Spec == Init /\ [][ScNext]_vars

\* a text normalizer is called; nothing else is
InitText == TxInit /\ PgIdle /\ ScIdle /\ ExIdle

\* a text normalizer called on an input
SpecText == InitText /\ [][TxNext]_vars

\* the page parser or the record extractor is called; nothing else is
InitParse == PgInit /\ TxIdle /\ ScIdle /\ ExIdle

\* the page parser, or the record extractor, called on an input
SpecParse == InitParse /\ [][PgNext]_vars

\* export() is called; nothing else is
InitExport == ExInit /\ TxIdle /\ PgIdle /\ ScIdle

\* export() called on a list of records and a format
SpecExport == InitExport /\ [][ExNext]_vars

----------------------------------------------------------------------------
(* Claims about the text normalizers, checked under SpecText *)

\* C6: no text normalizer raises: parse_created_at returns a string for every
\* text, also for a relative expression with an arbitrarily large N, and
\* parse_client_reviews returns an integer.
C6_NormalizersNeverRaise ==
    (tx_pc = "done" /\ call.fn \in {"parse_created_at", "parse_client_reviews"})
        => /\ tx_result.kind = "return"
           /\ call.fn = "parse_created_at" => tx_result.val.fmt \in {"iso8601", "text"}
           /\ call.fn = "parse_client_reviews" => tx_result.val \in Int

\* the digit runs of s that no digit precedes: the integer substrings of s
IntegerStarts(s) ==
    {i \in 1..Len(s) : s[i] \in Digits /\ (i = 1 \/ s[i - 1] \notin Digits)}

IntegerAt(s, i) ==
    LET j == CHOOSE k \in i..Len(s) :
                 /\ \A x \in i..k : s[x] \in Digits
                 /\ (k = Len(s) \/ s[k + 1] \notin Digits)
    IN  int_of(SubSeq(s, i, j))

\* "<N> reviews" stands at index i of s: an integer, whitespace, then "reviews"
NReviewsAt(s, i) ==
    /\ i \in IntegerStarts(s)
    /\ \E j \in i..Len(s), k \in (i + 2)..Len(s) :
          /\ j + 1 < k
          /\ \A x \in i..j : s[x] \in Digits
          /\ \A x \in (j + 1)..(k - 1) : s[x] \in Whitespace
          /\ StartsWithAt(s, k, <<"r", "e", "v", "i", "e", "w", "s">>)

\* the result the claim describes for the lower-cased cleaned text s
ReviewsExpected(s) ==
    LET matches == {i \in IntegerStarts(s) : NReviewsAt(s, i)}
        reasonable == {i \in IntegerStarts(s) :
                          0 < IntegerAt(s, i) /\ IntegerAt(s, i) < 10000}
    IN  IF matches # {} THEN IntegerAt(s, Min(matches))
        ELSE IF reasonable # {} THEN IntegerAt(s, Min(reasonable))
        ELSE 0

\* every integer substring of s is 0 or at least 10000
OnlyLargeOrZero(s) ==
    \A i \in IntegerStarts(s) : IntegerAt(s, i) = 0 \/ IntegerAt(s, i) >= 10000

ReviewsDone == tx_pc = "done" /\ call.fn = "parse_client_reviews"

EqIgnoreCase(a, b) == Lower(a) = Lower(b)

\* the cleaned, non-empty entries of a list, in order
CleanedEntries(l) ==
    LET c == [i \in 1..Len(l) |-> clean_text(l[i])]
    IN  SelectSeq(c, LAMBDA e : e # <<>>)

\* the entries of c that no earlier entry of c equals ignoring case
FirstOccurrences(c) ==
    LET keep == {i \in 1..Len(c) : \A j \in 1..(i - 1) : ~EqIgnoreCase(c[j], c[i])}
        nth(k) == CHOOSE i \in keep : Cardinality({j \in keep : j < i}) = k - 1
    IN  [k \in 1..Cardinality(keep) |-> c[nth(k)]]

SkillsDone == tx_pc = "done" /\ call.fn = "parse_skills_list"

\* C8: parse_skills_list returns the cleaned non-empty entries, each kept iff no
\* earlier entry equals it ignoring case: no two entries of the output are equal
\* ignoring case, the first occurrence's casing and the input order are kept,
\* and parse_skills_list of the output is the output.
C8_SkillsDedup ==
    SkillsDone =>
        LET out == tx_result.val
        IN  /\ out = FirstOccurrences(CleanedEntries(call.list))
            /\ \A i, j \in 1..Len(out) : i # j => ~EqIgnoreCase(out[i], out[j])
            /\ parse_skills_list(out) = out

\* a list with a duplicate in another casing and two entries that survive
C8_Witness ==
    /\ SkillsDone
    /\ Len(tx_result.val) = 2
    /\ Len(CleanedEntries(call.list)) = 3
    /\ \E i, j \in 1..Len(call.list) :
          /\ i < j
          /\ clean_text(call.list[i]) # clean_text(call.list[j])
          /\ EqIgnoreCase(clean_text(call.list[i]), clean_text(call.list[j]))
          /\ clean_text(call.list[i]) # <<>>

----------------------------------------------------------------------------
(* Claims about the page parser and the record extractor, under SpecParse *)

PageDone == pg_pc = "done" /\ pg_call.fn = "parse_jobs_from_html"

CardDone == pg_pc = "done" /\ pg_call.fn = "_parse_single_job"

\* the extraction of a card returned a record
YieldsRecord(card, now) ==
    LET job == parse_single_job(card, now)
    IN  job.kind = "return" /\ job.val # None

\* the extraction of a card raised
ExtractionRaises(card, now) == parse_single_job(card, now).kind = "raise"

\* the records of the cards that yield one, in card order
RecordsOf(cards, now) ==
    LET keep == {i \in 1..Len(cards) : YieldsRecord(cards[i], now)}
        nth(k) == CHOOSE i \in keep : Cardinality({j \in keep : j < i}) = k - 1
    IN  [k \in 1..Cardinality(keep) |-> parse_single_job(cards[nth(k)], now).val[1]]

\* C4: parse_jobs_from_html returns, in card order, exactly the records of the
\* cards whose extraction returned a record; a card whose extraction raises
\* contributes nothing and stops no later card, and no exception reaches the
\* caller.
C4_PerCardIsolation ==
    PageDone =>
        /\ pg_result.kind = "return"
        /\ pg_result.val = RecordsOf(job_cards(pg_call.html), pg_call.now)

\* a page where a card that raises stands between two cards that yield records
C4_Witness ==
    /\ PageDone
    /\ LET cards == job_cards(pg_call.html)
       IN  /\ Len(cards) = 3
           /\ YieldsRecord(cards[1], pg_call.now)
           /\ ExtractionRaises(cards[2], pg_call.now)
           /\ YieldsRecord(cards[3], pg_call.now)
    /\ pg_result.kind = "return"
    /\ Len(pg_result.val) = 2

\* a record with at least one of jobId, title, description non-empty
Identified(job) == job.jobId # <<>> \/ job.title # <<>> \/ job.description # <<>>

\* jobId, title and description of a card all resolve to empty
ResolvesEmpty(card) ==
    /\ Falsy(resolve_job_id(card))
    /\ resolve_title(card) = <<>>
    /\ resolve_description(card) = <<>>

\* of jobId, title and description, a card has a title and nothing else
OnlyTitle(card) ==
    /\ Falsy(resolve_job_id(card))
    /\ resolve_title(card) # <<>>
    /\ resolve_description(card) = <<>>

\* C5: every record of _parse_single_job and of parse_jobs_from_html has one of
\* jobId, title, description non-empty; a card for which all three resolve to
\* empty yields None, not an error; a card with only a title yields a record
\* whose jobId and description are empty strings.
C5_EmptinessInvariant ==
    /\ PageDone =>
          (pg_result.kind = "return"
             /\ \A i \in 1..Len(pg_result.val) : Identified(pg_result.val[i]))
    /\ CardDone =>
          /\ (pg_result.kind = "return" /\ pg_result.val # None)
                => Identified(pg_result.val[1])
          /\ ResolvesEmpty(pg_call.card[1]) => pg_result = Ret(None)
          /\ OnlyTitle(pg_call.card[1]) =>
                /\ pg_result.kind = "return"
                /\ pg_result.val # None
                /\ pg_result.val[1].jobId = <<>>
                /\ pg_result.val[1].description = <<>>

\* the elements the specific title selector matches with a non-empty cleaned text
SpecificTitles(card) ==
    SelectSeq(card.elems,
              LAMBDA e : e.test = "job-title-link" /\ clean_text(e.text) # <<>>)

\* the generic h4, h3 and a elements with a non-empty cleaned text
GenericTitles(card) ==
    SelectSeq(card.elems,
              LAMBDA e : e.tag \in {"h4", "h3", "a"} /\ clean_text(e.text) # <<>>)

\* the elements the specific description selector matches with a non-empty text
SpecificDescriptions(card) ==
    SelectSeq(card.elems,
              LAMBDA e : e.test = "job-description-text" /\ clean_text(e.text) # <<>>)

\* the description divs and the p elements with a non-empty cleaned text
GenericDescriptions(card) ==
    SelectSeq(card.elems,
              LAMBDA e : /\ \/ e.tag = "p"
                            \/ (e.tag = "div"
                                  /\ Contains(e.cls, <<"d", "e", "s", "c", "r", "i", "p", "t", "i", "o", "n">>))
                         /\ clean_text(e.text) # <<>>)

\* value is what the priority order resolves to: the text of the specific
\* candidate when one is non-empty, else the text of a non-empty generic one,
\* else the empty string
ResolvedByPriority(value, specific, generic) ==
    IF specific # <<>> THEN value = clean_text(specific[1].text)
    ELSE IF generic # <<>>
    THEN \E i \in 1..Len(generic) : value = clean_text(generic[i].text)
    ELSE value = <<>>

\* C11: title and description are resolved by priority, not by document order:
\* the specific selector (job-title-link, job-description-text) wins whenever
\* the card has a non-empty match for it, wherever the generic tags stand, and
\* a generic tag is used only when no specific candidate has non-empty text.
C11_PriorityOrdered ==
    (CardDone /\ pg_result.kind = "return" /\ pg_result.val # None) =>
        LET card == pg_call.card[1]
            job == pg_result.val[1]
        IN  /\ ResolvedByPriority(job.title, SpecificTitles(card), GenericTitles(card))
            /\ ResolvedByPriority(job.description, SpecificDescriptions(card),
                                  GenericDescriptions(card))

\* the attributes of a card, in the order of IdAttrs, that hold a non-empty id
SetAttrs(card) ==
    {i \in 1..Len(IdAttrs) : card.attrs[IdAttrs[i]] \notin {None, Some(<<>>)}}

\* the job links of a card, in document order
JobLinks(card) ==
    SelectSeq(card.elems,
              LAMBDA e : /\ e.tag = "a"
                         /\ e.href # None
                         /\ \E i \in 1..Len(e.href[1]) :
                               \/ StartsWithAt(e.href[1], i, <<"/", "j", "o", "b", "s", "/">>)
                               \/ StartsWithAt(e.href[1], i, <<"/", "j", "o", "b", "/">>))

\* the positions of the character c in s
Positions(s, c) == {i \in 1..Len(s) : s[i] = c}

\* the path of an href: what stands before its query string
PathOf(href) ==
    IF Positions(href, "?") = {} THEN href
    ELSE SubSeq(href, 1, Min(Positions(href, "?")) - 1)

\* the segment of a path that follows its first "~", up to the next "/"
SegmentAfterTilde(path) ==
    LET i == Min(Positions(path, "~"))
        ends == {j \in Positions(path, "/") : j > i}
    IN  SubSeq(path, i + 1, IF ends = {} THEN Len(path) ELSE Min(ends) - 1)

\* the last segment of a path, trailing slashes apart
TrailingSegment(path) ==
    LET n == Max({0} \cup {i \in 1..Len(path) : path[i] # "/"})
        slashes == {i \in Positions(path, "/") : i < n}
    IN  SubSeq(path, IF slashes = {} THEN 1 ELSE Max(slashes) + 1, n)

\* the identifier in the path of an href
PathIdentifier(href) ==
    IF Positions(PathOf(href), "~") # {} THEN SegmentAfterTilde(PathOf(href))
    ELSE TrailingSegment(PathOf(href))

\* C12: the jobId is the first non-empty of data-job-id, data-ev-job-id and
\* data-test-job-id; only when none is set it is taken from the href of the
\* first job link, and then it is the identifier of the URL path, the query
\* string stripped: the segment after "~" up to the next "/" or "?", or else
\* the trailing path segment. It holds no "/", no "?" and nothing of the query
\* string, also when the path ends in "/" or the query string holds "/" or "~".
C12_JobIdResolution ==
    (CardDone /\ pg_result.kind = "return" /\ pg_result.val # None) =>
        LET card == pg_call.card[1]
            jobId == pg_result.val[1].jobId
        IN  /\ SetAttrs(card) # {} =>
                  jobId = card.attrs[IdAttrs[Min(SetAttrs(card))]][1]
            /\ (SetAttrs(card) = {} /\ JobLinks(card) # <<>>) =>
                  /\ jobId = PathIdentifier(JobLinks(card)[1].href[1])
                  /\ Positions(jobId, "/") = {}
                  /\ Positions(jobId, "?") = {}

----------------------------------------------------------------------------
(* Claims about scrape(), checked under Spec *)

RECURSIVE YieldedBy(_)
\* the records the pages of a fetch log yield, page after page
YieldedBy(log) ==
    IF log = <<>> THEN <<>>
    ELSE YieldedBy(SubSeq(log, 1, Len(log) - 1))
             \o parse_jobs_from_html(log[Len(log)].html, ParseNow).val

\* the first n elements of a sequence (all of them when it has fewer)
Take(q, n) == SubSeq(q, 1, IF n < Len(q) THEN n ELSE Len(q))

\* C1: for max_items >= 0 the accumulator never holds more than max_items
\* records, and scrape returns the records its pages yielded cut to the first
\* max_items: exactly max_items of them when the pages yielded that many.
C1_CapRespected ==
    sc_cfg.max_items >= 0 =>
        /\ Len(sc_jobs) <= sc_cfg.max_items
        /\ sc_pc = "returned" =>
              /\ sc_jobs = Take(YieldedBy(sc_fetched), sc_cfg.max_items)
              /\ Len(YieldedBy(sc_fetched)) >= sc_cfg.max_items
                    => Len(sc_jobs) = sc_cfg.max_items

\* scrape returned after a second page whose records did not all fit
C1_Witness ==
    /\ sc_pc = "returned"
    /\ sc_cfg.max_items >= 2
    /\ Len(sc_fetched) = 2
    /\ sc_fetched[2].count > 0
    /\ Len(YieldedBy(sc_fetched)) > sc_cfg.max_items
    /\ Len(sc_jobs) = sc_cfg.max_items

\* C2: scrape() ends in one of its three terminal states and returns; no
\* exception leaves it, whatever happens while the url is built, the page is
\* fetched or parsed, or the loop pauses.
C2_ScrapeNeverRaises ==
    /\ sc_pc # "raised"
    /\ sc_pc = "returned" =>
          sc_terminal \in {"cap reached", "fetch exhausted", "pages exhausted"}

\* C3: when the fetch of page p returns an empty text, no page is fetched after
\* it (none greater than p, and p not again), and scrape returns exactly the
\* records of the pages 1..p-1.
C3_EmptyFetchStops ==
    \A k \in 1..Len(sc_fetched) :
        sc_fetched[k].html = <<>> =>
            /\ k = Len(sc_fetched)
            /\ \A i \in 1..(k - 1) : sc_fetched[i].page < sc_fetched[k].page
            /\ sc_fetched[k].page = k
            /\ sc_pc = "returned"
            /\ sc_terminal = "fetch exhausted"
            /\ sc_jobs = YieldedBy(SubSeq(sc_fetched, 1, k - 1))

\* a request timed out on the second page, with pages left and the cap not reached
C3_Witness ==
    /\ Len(sc_fetched) = 2
    /\ sc_fetched[2].failed
    /\ sc_fetched[2].page < sc_cfg.max_pages
    /\ sc_pc = "returned"
    /\ sc_jobs # <<>>
    /\ Len(sc_jobs) < sc_cfg.max_items

\* C10: the stop condition is checked before every page: no page is fetched and
\* no pause is taken with max_items or more records accumulated; once the cap
\* is reached no further page is fetched, and with max_items <= 0 none at all.
C10_StopCheckedBeforeEachPage ==
    /\ \A k \in 1..Len(sc_fetched) : sc_fetched[k].count < sc_cfg.max_items
    /\ \A k \in 1..Len(sc_slept) : sc_slept[k].count < sc_cfg.max_items
    /\ sc_pc = "fetch" => Len(sc_jobs) < sc_cfg.max_items
    /\ sc_cfg.max_items <= 0 => (sc_fetched = <<>> /\ sc_slept = <<>>)
    /\ sc_terminal = "cap reached" =>
          \A k \in 1..Len(sc_fetched) : sc_fetched[k].page < sc_page

\* the cap was reached with pages of the range left: scrape stopped before them
C10_Witness ==
    /\ sc_pc = "returned"
    /\ sc_terminal = "cap reached"
    /\ sc_page < sc_cfg.max_pages
    /\ Len(sc_fetched) = sc_page - 1
    /\ Len(sc_fetched) >= 1
    /\ Len(sc_jobs) = sc_cfg.max_items

RECURSIVE SplitOn(_, _)
\* the pieces of s between the occurrences of the character c
SplitOn(s, c) ==
    IF Positions(s, c) = {} THEN <<s>>
    ELSE <<SubSeq(s, 1, Min(Positions(s, c)) - 1)>>
             \o SplitOn(SubSeq(s, Min(Positions(s, c)) + 1, Len(s)), c)

RECURSIVE JoinWith(_, _)
\* the pieces put together again with the character c between them
JoinWith(parts, c) ==
    IF Len(parts) = 1 THEN parts[1]
    ELSE parts[1] \o <<c>> \o JoinWith(Tail(parts), c)

\* the parameters of the query string of a url that has one
QueryParams(url) ==
    SplitOn(SubSeq(url, Min(Positions(url, "?")) + 1, Len(url)), "&")

\* a query parameter whose name is page
IsPageParam(param) == StartsWithAt(param, 1, <<"p", "a", "g", "e", "=">>)

\* the parameter page=n
PageParam(n) == <<"p", "a", "g", "e", "=">> \o IntToStr(n)

\* a template with a query string, the value of its page parameter replaced by
\* n and every other parameter as it was, or page=n appended when it has none
WithPageParam(t, n) ==
    LET params == QueryParams(t)
        replaced == [i \in 1..Len(params) |->
                        IF IsPageParam(params[i]) THEN PageParam(n) ELSE params[i]]
        base == SubSeq(t, 1, Min(Positions(t, "?")))
    IN  IF \E i \in 1..Len(params) : IsPageParam(params[i])
        THEN base \o JoinWith(replaced, "&")
        ELSE t \o <<"&">> \o PageParam(n)

\* a template has the {page} placeholder
HasPlaceholder(t) ==
    \E i \in 1..Len(t) : StartsWithAt(t, i, <<"{", "p", "a", "g", "e", "}">>)

RECURSIVE Substituted(_, _)
\* a template with every {page} placeholder replaced by n
Substituted(t, n) ==
    IF t = <<>> THEN <<>>
    ELSE IF StartsWithAt(t, 1, <<"{", "p", "a", "g", "e", "}">>)
    THEN IntToStr(n) \o Substituted(SubSeq(t, 7, Len(t)), n)
    ELSE <<t[1]>> \o Substituted(Tail(t), n)

\* the url the claim gives for a template and a page number
ClaimedUrl(t, n) ==
    IF HasPlaceholder(t) THEN Substituted(t, n)
    ELSE IF Positions(t, "?") # {} THEN WithPageParam(t, n)
    ELSE t \o <<"?">> \o PageParam(n)

\* a url carries exactly one page parameter, and its value is n
OnePageParam(url, n) ==
    /\ Positions(url, "?") # {}
    /\ LET params == QueryParams(url)
       IN  /\ Cardinality({i \in 1..Len(params) : IsPageParam(params[i])}) = 1
           /\ \A i \in 1..Len(params) : IsPageParam(params[i]) => params[i] = PageParam(n)

\* C13: _build_url returns the template with {page} substituted by n when it
\* has the placeholder; otherwise, for a template with a query string, the
\* template with the value of its page parameter replaced by n and every other
\* parameter unchanged, or with page=n appended when it has no page parameter;
\* otherwise the template followed by ?page=n. The url carries exactly one
\* page parameter, whose value is n.
C13_BuildUrl ==
    \A k \in 1..Len(sc_fetched) :
        /\ sc_fetched[k].url = ClaimedUrl(sc_cfg.search_url_template, sc_fetched[k].page)
        /\ OnePageParam(sc_fetched[k].url, sc_fetched[k].page)

----------------------------------------------------------------------------
(* Claims about the exporter, checked under SpecExport *)

\* the order the claim gives: the preferred ordering restricted to the fields
\* present, then every other field in ascending order
ClaimedColumns(data) ==
    LET present == all_fields(data)
        known == SelectSeq(preferred_order, LAMBDA f : f \in present)
        others == present \ Range(preferred_order)
        ascending == CHOOSE q \in [1..Cardinality(others) -> others] :
                        \A i, j \in 1..Cardinality(others) : i < j => StrLess(q[i], q[j])
    IN  known \o ascending

TabularDone ==
    /\ ex_pc = "done"
    /\ ex_result.kind = "return"
    /\ ex_result.val.format \in {"csv", "excel"}

\* C9: for every non-empty list of records the columns of both tabular exports,
\* csv and excel, are the preferred ordering restricted to the fields present,
\* followed by the unrecognized fields in ascending alphabetical order.
C9_TabularColumnOrder ==
    TabularDone => ex_result.val.columns = ClaimedColumns(ex_data)

====
